---- MODULE Spec2Model ----
(***************************************************************************)
(* A model of inference/sentiment_analysis.py: main() reads a dataset of   *)
(* tweets, scores every tweet that does not refer to another tweet with    *)
(* an external polarity scorer, classifies the scored tweets as positive,  *)
(* negative and neutral, prints the ten highest-scoring tweets of each     *)
(* class and the overall metrics, and optionally plots two histograms.     *)
(*                                                                         *)
(* Polarity scores are floats in the source; here they are non-negative    *)
(* integers (a fixed-point scale), and a quotient is the exact fraction    *)
(* <<numerator, denominator>>.                                             *)
(***************************************************************************)
EXTENDS Integers, Sequences, FiniteSets, TLC

\* ------------------------------------------------------------------ bounds

\* Longest dataset of the pipeline specification Spec.
MaxRows == 3
\* Polarity scores range over 0 .. MaxScore in SpecClassify.
MaxScore == 3
\* Longest analysed corpus of SpecClassify.
MaxCorpus == 1
\* Longest analysed corpus of SpecTop (more than TopCount, so that the
\* slice drops records).
MaxPart == 11

\* --------------------------------------------------------------- constants

\* The literal of the slices [-10:] in main.
TopCount == 10
\* The bin count handed to pyplot.hist.
HistBins == 20

\* An optional value is a sequence of at most one element: None is the empty
\* one, and the integer n given on the command line is Some(n).
None == <<>>
Some(n) == << n >>

\* main has not terminated with an exception.
NoFailure == "no failure"
Marker == "https://t.co"

\* Texts are sequences of tokens; a tweet that refers to another tweet
\* carries the short-link marker as one of its tokens.
Texts == { <<"good", "day">>, <<"RT", Marker>> }

\* The keys of the dict returned by polarity_scores that the program reads.
PolarityScores == [pos : 0 .. MaxScore, neg : 0 .. MaxScore, neu : 0 .. MaxScore]

Score(p, n, u) == [pos |-> p, neg |-> n, neu |-> u]

\* What the scorer answers in the runs of Spec: one triple for each
\* combination of classes a tweet can fall in (see is_tweet_*), and ties.
ScorerOutputs ==
    { Score(0, 0, 0), Score(1, 1, 1), Score(2, 1, 0), Score(1, 2, 0),
      Score(1, 1, 2), Score(2, 1, 3), Score(1, 2, 3) }

\* The scorer's answers in SpecTop: per run two triples of one class, so
\* that a long corpus holds ties as well as different scores.
TopScoreSets ==
    { { Score(1, 0, 0), Score(2, 0, 0) },
      { Score(0, 1, 0), Score(0, 2, 0) },
      { Score(0, 0, 1), Score(0, 0, 2) } }

VARIABLES
    dataset,          \* the rows read_csv returned: [Text, Timestamp]
    limit,            \* args.limit: None or an integer
    plot,             \* args.plot
    pc,               \* the position of main
    row,              \* row[0] of the row the loop of analyze_tweets is at
    considered,       \* the row[0] of every row that passed the limit check
    scorer_calls,     \* the calls of sid.polarity_scores, in order
    analysed_tweets,
    positive_tweets,
    negative_tweets,
    neutral_tweets,
    top10,            \* the three lists the printing loops of main went over
    output,           \* the lines printed so far
    hist_calls,       \* the calls of pyplot.hist
    failure           \* the exception main terminated with, or NoFailure

vars == << dataset, limit, plot, pc, row, considered, scorer_calls,
           analysed_tweets, positive_tweets, negative_tweets, neutral_tweets,
           top10, output, hist_calls, failure >>

\* ----------------------------------------------------------------- helpers

Min(a, b) == IF a < b THEN a ELSE b
Max(a, b) == IF a > b THEN a ELSE b

\* A printed line: the format string's label and the values formatted in.
Line(label, args) == [label |-> label, args |-> args]

\* Python's truth value of args.limit: None and 0 are false.
Truthy(l) == l # None /\ l[1] # 0

\* x / y of two numbers raises ZeroDivisionError when y is zero.
DivisionFails_never(x, y) == FALSE

DivisionFails(x, y) == y = 0

\* (x / y) * 100 as the exact fraction.
Percent(x, y) == << 100 * x, y >>

\* 'https://t.co' in preprocessed_tweet.text
IsReference_never(text) == FALSE

IsReference(text) == \E i \in DOMAIN text : text[i] = Marker

\* if limit and row[0] >= limit: break
LimitReached_late(l, r) == Truthy(l) /\ r > l[1]

LimitReached(l, r) == Truthy(l) /\ r >= l[1]

PreprocessedTweet(raw) == [text |-> raw.Text, timestamp_ms |-> raw.Timestamp]

\* What sentiment_analysis returns for a tweet the scorer answered s for.
sentiment_analysis(tweet, s) == [tweet |-> tweet, polarity_scores |-> s]

\* ------------------------------------------------------------- classifier

is_tweet_negative(analysed_tweet) ==
    /\ analysed_tweet.polarity_scores.neg > 0
    /\ analysed_tweet.polarity_scores.neg > analysed_tweet.polarity_scores.pos

is_tweet_positive_tie(analysed_tweet) ==
    /\ analysed_tweet.polarity_scores.pos > 0
    /\ analysed_tweet.polarity_scores.pos >= analysed_tweet.polarity_scores.neg

is_tweet_positive(analysed_tweet) ==
    /\ analysed_tweet.polarity_scores.pos > 0
    /\ analysed_tweet.polarity_scores.pos > analysed_tweet.polarity_scores.neg

is_tweet_neutral_tie(analysed_tweet) ==
    /\ analysed_tweet.polarity_scores.neu > 0
    /\ analysed_tweet.polarity_scores.neu > analysed_tweet.polarity_scores.neg
    /\ analysed_tweet.polarity_scores.neu >= analysed_tweet.polarity_scores.pos

is_tweet_neutral(analysed_tweet) ==
    /\ analysed_tweet.polarity_scores.neu > 0
    /\ analysed_tweet.polarity_scores.neu > analysed_tweet.polarity_scores.neg
    /\ analysed_tweet.polarity_scores.neu > analysed_tweet.polarity_scores.pos

\* if <test>: classified_tweets[i].append(t)
AppendIf_front(list, test, t) == IF test THEN << t >> \o list ELSE list

AppendIf(list, test, t) == IF test THEN Append(list, t) ELSE list

\* The loop of classify_tweets from its k-th record on; classified is the
\* tuple of the three lists built so far.
RECURSIVE classify_from(_, _, _)
classify_from(tweets, k, classified) ==
    IF k > Len(tweets) THEN classified
    ELSE LET t == tweets[k]
         IN  classify_from(tweets, k + 1,
                 << AppendIf(classified[1], is_tweet_positive(t), t),
                    AppendIf(classified[2], is_tweet_negative(t), t),
                    AppendIf(classified[3], is_tweet_neutral(t), t) >>)

classify_tweets(tweets) == classify_from(tweets, 1, << <<>>, <<>>, <<>> >>)

\* ------------------------------------------------------------------ top 10

\* x placed into a list sorted by key, behind every record whose key is not
\* greater: with records inserted in list order, equal keys keep that order.
RECURSIVE insert_sorted(_, _, _)
insert_sorted(list, x, key) ==
    IF list = <<>> THEN << x >>
    ELSE IF x.polarity_scores[key] < Head(list).polarity_scores[key]
         THEN << x >> \o list
         ELSE << Head(list) >> \o insert_sorted(Tail(list), x, key)

RECURSIVE sorted_from(_, _, _, _)
sorted_from(list, k, key, acc) ==
    IF k > Len(list) THEN acc
    ELSE sorted_from(list, k + 1, key, insert_sorted(acc, list[k], key))

\* sorted(list, key=lambda x: x['polarity_scores'][key]): ascending, stable.
sorted(list, key) == sorted_from(list, 1, key, <<>>)

\* list[-n:]: from index len - n on when n is positive and at most len, the
\* whole list when n exceeds len, and (as -0 is 0) the whole list for n = 0.
LastSlice(list, n) ==
    LET start == IF n = 0 THEN 0 ELSE Max(Len(list) - n, 0)
    IN  SubSeq(list, start + 1, Len(list))

Top10_first(list, key) == SubSeq(sorted(list, key), 1, Min(TopCount, Len(list)))

\* sorted(list, key=...)[-10:]
Top10(list, key) == LastSlice(sorted(list, key), TopCount)

\* The lines one of the three loops of main prints for the list it goes over.
TopLines(label, list, key) ==
    [ i \in 1 .. Len(list) |->
        Line(label, << list[i].polarity_scores[key], list[i].tweet.text >>) ]

\* sum([x['polarity_scores'][key] for x in list])
RECURSIVE sum_scores(_, _)
sum_scores(list, key) ==
    IF list = <<>> THEN 0
    ELSE Head(list).polarity_scores[key] + sum_scores(Tail(list), key)

\* [x['polarity_scores'][key] for x in list]
scores_of(list, key) == [ i \in 1 .. Len(list) |-> list[i].polarity_scores[key] ]

\* ----------------------------------------------------------------- actions

\* The loop of analyze_tweets ends: the rows are exhausted, or the limit
\* check breaks out of it; main goes on to classify_tweets.
analyze_tweets_return ==
    /\ pc = "analyze_tweets"
    /\ row >= Len(dataset) \/ LimitReached(limit, row)
    /\ pc' = "classify_tweets"
    /\ UNCHANGED << dataset, limit, plot, row, considered, scorer_calls,
                    analysed_tweets, positive_tweets, negative_tweets,
                    neutral_tweets, top10, output, hist_calls, failure >>

\* One pass of the loop over a tweet that refers to another tweet: continue.
analyze_tweets_skip ==
    /\ pc = "analyze_tweets"
    /\ row < Len(dataset) /\ ~LimitReached(limit, row)
    /\ IsReference(PreprocessedTweet(dataset[row + 1]).text)
    /\ considered' = Append(considered, row)
    /\ row' = row + 1
    /\ UNCHANGED << dataset, limit, plot, pc, scorer_calls, analysed_tweets,
                    positive_tweets, negative_tweets, neutral_tweets, top10,
                    output, hist_calls, failure >>

\* One pass of the loop over any other tweet: it is scored (the scorer
\* answers any of its triples) and appended.
analyze_tweets_score ==
    /\ pc = "analyze_tweets"
    /\ row < Len(dataset) /\ ~LimitReached(limit, row)
    /\ LET preprocessed_tweet == PreprocessedTweet(dataset[row + 1])
       IN  /\ ~IsReference(preprocessed_tweet.text)
           /\ \E s \in ScorerOutputs :
                /\ scorer_calls' =
                       Append(scorer_calls, [text |-> preprocessed_tweet.text,
                                             row |-> row, result |-> s])
                /\ analysed_tweets' =
                       Append(analysed_tweets,
                              sentiment_analysis(preprocessed_tweet, s))
    /\ output' = Append(output, Line("Analyzing tweet #", << row >>))
    /\ considered' = Append(considered, row)
    /\ row' = row + 1
    /\ UNCHANGED << dataset, limit, plot, pc, positive_tweets, negative_tweets,
                    neutral_tweets, top10, hist_calls, failure >>

\* positive_tweets, negative_tweets, neutral_tweets = classify_tweets(...)
main_classify ==
    /\ pc = "classify_tweets"
    /\ LET classified_tweets == classify_tweets(analysed_tweets)
       IN  /\ positive_tweets' = classified_tweets[1]
           /\ negative_tweets' = classified_tweets[2]
           /\ neutral_tweets' = classified_tweets[3]
    /\ pc' = "top10"
    /\ UNCHANGED << dataset, limit, plot, row, considered, scorer_calls,
                    analysed_tweets, top10, output, hist_calls, failure >>

\* The three printing loops of main: negative, positive, neutral.
main_top10 ==
    /\ pc = "top10"
    /\ LET neg == Top10(negative_tweets, "neg")
           pos == Top10(positive_tweets, "pos")
           neu == Top10(neutral_tweets, "neu")
       IN  /\ top10' = [neg |-> neg, pos |-> pos, neu |-> neu]
           /\ output' = output
                  \o << Line("Top 10 negative tweets:", <<>>) >>
                  \o TopLines("N score", neg, "neg")
                  \o << Line("Top 10 positive tweets:", <<>>) >>
                  \o TopLines("Positive score", pos, "pos")
                  \o << Line("Top 10 neutral tweets:", <<>>) >>
                  \o TopLines("Neutral score", neu, "neu")
    /\ pc' = "print_overall_metrics"
    /\ UNCHANGED << dataset, limit, plot, row, considered, scorer_calls,
                    analysed_tweets, positive_tweets, negative_tweets,
                    neutral_tweets, hist_calls, failure >>

\* The lines print_overall_metrics prints before its second pair of divisions.
RatioLines ==
    << Line("Positive tweets ratio",
            Percent(Len(positive_tweets), Len(analysed_tweets))),
       Line("Negative tweets ratio",
            Percent(Len(negative_tweets), Len(analysed_tweets))),
       Line("Positive sentiment score",
            << sum_scores(positive_tweets, "pos") >>),
       Line("Negative sentiment score",
            << sum_scores(negative_tweets, "neg") >>) >>

\* The lines it prints from there on.
PercentageLines ==
    LET positive_sentiment_score == sum_scores(positive_tweets, "pos")
        negative_sentiment_score == sum_scores(negative_tweets, "neg")
    IN  << Line("Positive sentiment score percentage",
                Percent(positive_sentiment_score,
                        positive_sentiment_score + negative_sentiment_score)),
           Line("Negative sentiment score percentage",
                Percent(negative_sentiment_score,
                        positive_sentiment_score + negative_sentiment_score)),
           Line("Analysed tweets", << Len(analysed_tweets) >>),
           Line("Positive tweets", << Len(positive_tweets) >>),
           Line("Negative tweets", << Len(negative_tweets) >>) >>

\* print_overall_metrics with every quotient computed before the first print.
print_overall_metrics_all_or_nothing ==
    /\ pc = "print_overall_metrics"
    /\ LET positive_sentiment_score == sum_scores(positive_tweets, "pos")
           negative_sentiment_score == sum_scores(negative_tweets, "neg")
       IN  IF \/ DivisionFails(Len(positive_tweets), Len(analysed_tweets))
              \/ DivisionFails(positive_sentiment_score,
                      positive_sentiment_score + negative_sentiment_score)
           THEN /\ failure' = "ZeroDivisionError"
                /\ pc' = "failed"
                /\ output' = output
           ELSE /\ failure' = failure
                /\ pc' = IF plot THEN "show_polarity_histogram" ELSE "done"
                /\ output' = output \o RatioLines \o PercentageLines
    /\ UNCHANGED << dataset, limit, plot, row, considered, scorer_calls,
                    analysed_tweets, positive_tweets, negative_tweets,
                    neutral_tweets, top10, hist_calls >>

print_overall_metrics ==
    /\ pc = "print_overall_metrics"
    /\ LET positive_sentiment_score == sum_scores(positive_tweets, "pos")
           negative_sentiment_score == sum_scores(negative_tweets, "neg")
       IN  IF DivisionFails(Len(positive_tweets), Len(analysed_tweets))
           THEN /\ failure' = "ZeroDivisionError"
                /\ pc' = "failed"
                /\ output' = output
           ELSE IF DivisionFails(positive_sentiment_score,
                        positive_sentiment_score + negative_sentiment_score)
           THEN /\ failure' = "ZeroDivisionError"
                /\ pc' = "failed"
                /\ output' = output \o RatioLines
           ELSE /\ failure' = failure
                /\ pc' = IF plot THEN "show_polarity_histogram" ELSE "done"
                /\ output' = output \o RatioLines \o PercentageLines
    /\ UNCHANGED << dataset, limit, plot, row, considered, scorer_calls,
                    analysed_tweets, positive_tweets, negative_tweets,
                    neutral_tweets, top10, hist_calls >>

\* if args.plot: show_polarity_histogram(positive_tweets, negative_tweets)
show_polarity_histogram ==
    /\ pc = "show_polarity_histogram"
    /\ IF positive_tweets = <<>> \/ negative_tweets = <<>>
       THEN /\ failure' = "AssertionError"
            /\ pc' = "failed"
            /\ hist_calls' = hist_calls
       ELSE /\ failure' = failure
            /\ pc' = "done"
            /\ hist_calls' =
                   << [x |-> scores_of(positive_tweets, "pos"),
                       bins |-> HistBins, label |-> "positive"],
                      [x |-> scores_of(negative_tweets, "neg"),
                       bins |-> HistBins, label |-> "negative"] >>
    /\ UNCHANGED << dataset, limit, plot, row, considered, scorer_calls,
                    analysed_tweets, positive_tweets, negative_tweets,
                    neutral_tweets, top10, output >>

\* ---------------------------------------------------------- specifications

\* The datasets: up to n rows, each with one of the texts; read_csv numbers
\* the rows from 0, and a row's timestamp tells it from the others.
Datasets(n) ==
    UNION { { [ i \in 1 .. k |-> [Text |-> texts[i], Timestamp |-> i - 1] ] :
                texts \in [1 .. k -> Texts] } : k \in 0 .. n }

NoTop == [neg |-> <<>>, pos |-> <<>>, neu |-> <<>>]

\* main after parse_args: nothing read yet.
Init ==
    /\ dataset \in Datasets(MaxRows)
    /\ limit \in {None} \cup { Some(n) : n \in 0 .. MaxRows }
    /\ plot \in BOOLEAN
    /\ pc = "analyze_tweets"
    /\ row = 0
    /\ considered = <<>>
    /\ scorer_calls = <<>>
    /\ analysed_tweets = <<>>
    /\ positive_tweets = <<>>
    /\ negative_tweets = <<>>
    /\ neutral_tweets = <<>>
    /\ top10 = NoTop
    /\ output = <<>>
    /\ hist_calls = <<>>
    /\ failure = NoFailure

Next ==
    \/ analyze_tweets_return
    \/ analyze_tweets_skip
    \/ analyze_tweets_score
    \/ main_classify
    \/ main_top10
    \/ print_overall_metrics
    \/ show_polarity_histogram

Spec == Init /\ [][Next]_vars

\* main as analyze_tweets returns, having scored a dataset of tweets none of
\* which refers to another, without a limit: the scorer answered scores[i]
\* for row i - 1.
Analysed(scores, withPlot) ==
    /\ dataset = [ i \in 1 .. Len(scores) |->
                     [Text |-> << "good", "day" >>, Timestamp |-> i - 1] ]
    /\ limit = None
    /\ plot = withPlot
    /\ pc = "classify_tweets"
    /\ row = Len(scores)
    /\ considered = [ i \in 1 .. Len(scores) |-> i - 1 ]
    /\ scorer_calls = [ i \in 1 .. Len(scores) |->
                          [text |-> << "good", "day" >>, row |-> i - 1,
                           result |-> scores[i]] ]
    /\ analysed_tweets = [ i \in 1 .. Len(scores) |->
                             sentiment_analysis(
                                 [text |-> << "good", "day" >>,
                                  timestamp_ms |-> i - 1], scores[i]) ]
    /\ positive_tweets = <<>>
    /\ negative_tweets = <<>>
    /\ neutral_tweets = <<>>
    /\ top10 = NoTop
    /\ output = [ i \in 1 .. Len(scores) |->
                    Line("Analyzing tweet #", << i - 1 >>) ]
    /\ hist_calls = <<>>
    /\ failure = NoFailure

\* The classifier over every polarity triple of 0 .. MaxScore.
InitClassify ==
    \E n \in 0 .. MaxCorpus : \E scores \in [1 .. n -> PolarityScores] :
        Analysed(scores, FALSE)

NextClassify == main_classify

SpecClassify == InitClassify /\ [][NextClassify]_vars

\* The ranking over corpora longer than TopCount.
InitTop ==
    \E answers \in TopScoreSets : \E n \in 0 .. MaxPart :
        \E scores \in [1 .. n -> answers] : Analysed(scores, FALSE)

NextTop ==
    \/ main_classify
    \/ main_top10

SpecTop == InitTop /\ [][NextTop]_vars

\* ------------------------------------------------------------------ claims

\* main is past classify_tweets.
Classified ==
    pc \in { "top10", "print_overall_metrics", "show_polarity_histogram",
             "done", "failed" }

\* Whether record t is one of the records of list.
In(t, list) == \E k \in DOMAIN list : list[k] = t

\* The position of an analysed record in analysed_tweets (the records of
\* analysed_tweets are pairwise different: each is of another row).
IndexOf(t) == CHOOSE i \in DOMAIN analysed_tweets : analysed_tweets[i] = t

\* part is analysed_tweets restricted to the records Member holds of, in the
\* order of analysed_tweets: nothing else, nothing twice, nothing out of order.
IsRestriction(part, Member(_)) ==
    /\ \A k \in DOMAIN part : In(part[k], analysed_tweets)
    /\ \A j, k \in DOMAIN part : j < k => IndexOf(part[j]) < IndexOf(part[k])
    /\ \A i \in DOMAIN analysed_tweets :
           Member(analysed_tweets[i]) <=> In(analysed_tweets[i], part)

\* C1: classify_tweets returns three sequences, each exactly the input
\* restricted to the records whose score satisfies the partition's predicate,
\* in the input's relative order (a subsequence: no reordering, no
\* duplication).
C1_PartitionsAreRestrictions ==
    Classified =>
        /\ IsRestriction(positive_tweets, is_tweet_positive)
        /\ IsRestriction(negative_tweets, is_tweet_negative)
        /\ IsRestriction(neutral_tweets, is_tweet_neutral)

\* Two records in one partition with a record of another partition between
\* them in the input.
C1_Witness ==
    /\ Classified
    /\ Len(analysed_tweets) = 3
    /\ Len(positive_tweets) = 2
    /\ negative_tweets = << analysed_tweets[2] >>
    /\ Len(neutral_tweets) = 1

\* C2: is_tweet_positive and is_tweet_negative are never both true, both are
\* false whenever pos = neg (0 included), and so no record is in both the
\* positive and the negative partition classify_tweets returns.
C2_PositiveNegativeExclusive ==
    /\ \A i \in DOMAIN analysed_tweets :
         LET t == analysed_tweets[i]
         IN  /\ ~(is_tweet_positive(t) /\ is_tweet_negative(t))
             /\ t.polarity_scores.pos = t.polarity_scores.neg =>
                    ~is_tweet_positive(t) /\ ~is_tweet_negative(t)
    /\ Classified =>
         \A i \in DOMAIN analysed_tweets :
             ~(In(analysed_tweets[i], positive_tweets)
                 /\ In(analysed_tweets[i], negative_tweets))

\* A classified record with pos = neg > 0, in neither of the two partitions.
C2_Witness ==
    /\ Classified
    /\ \E i \in DOMAIN analysed_tweets :
         /\ analysed_tweets[i].polarity_scores.pos > 0
         /\ analysed_tweets[i].polarity_scores.pos
                = analysed_tweets[i].polarity_scores.neg
         /\ ~In(analysed_tweets[i], positive_tweets)
         /\ ~In(analysed_tweets[i], negative_tweets)

\* C3 as stated: is_tweet_neutral is never true together with
\* is_tweet_positive or with is_tweet_negative, and after classify_tweets no
\* record of the neutral partition is in the positive or the negative one.
C3_NeutralExclusive ==
    /\ \A i \in DOMAIN analysed_tweets :
         LET t == analysed_tweets[i]
         IN  is_tweet_neutral(t) => ~is_tweet_positive(t) /\ ~is_tweet_negative(t)
    /\ Classified =>
         \A i \in DOMAIN analysed_tweets :
             In(analysed_tweets[i], neutral_tweets) =>
                 /\ ~In(analysed_tweets[i], positive_tweets)
                 /\ ~In(analysed_tweets[i], negative_tweets)

\* C3 as amended: is_tweet_neutral is true together with is_tweet_positive
\* exactly when neu > pos > neg, together with is_tweet_negative exactly when
\* neu > neg > pos, and never together with both; after classify_tweets a
\* record is in the neutral and the positive partition exactly in the first
\* case, in the neutral and the negative one exactly in the second.
C3_NeutralOverlaps ==
    \A i \in DOMAIN analysed_tweets :
        LET t == analysed_tweets[i]
            s == t.polarity_scores
        IN  /\ (is_tweet_neutral(t) /\ is_tweet_positive(t))
                   <=> (s.neu > s.pos /\ s.pos > s.neg)
            /\ (is_tweet_neutral(t) /\ is_tweet_negative(t))
                   <=> (s.neu > s.neg /\ s.neg > s.pos)
            /\ ~(is_tweet_neutral(t) /\ is_tweet_positive(t)
                   /\ is_tweet_negative(t))
            /\ Classified =>
                 /\ (In(t, neutral_tweets) /\ In(t, positive_tweets))
                        <=> (s.neu > s.pos /\ s.pos > s.neg)
                 /\ (In(t, neutral_tweets) /\ In(t, negative_tweets))
                        <=> (s.neu > s.neg /\ s.neg > s.pos)

\* A record in the neutral and in the positive partition.
C3_Witness ==
    /\ Classified
    /\ \E i \in DOMAIN analysed_tweets :
         /\ In(analysed_tweets[i], neutral_tweets)
         /\ In(analysed_tweets[i], positive_tweets)

\* analyze_tweets has returned.
Analysed_done == pc # "analyze_tweets"

\* The values of a sequence.
Range(list) == { list[k] : k \in DOMAIN list }

\* The rows of the dataset (by row[0]) whose text holds no marker, in order.
EligibleRows ==
    SelectSeq([ i \in 1 .. Len(dataset) |-> i - 1 ],
              LAMBDA r : \A k \in DOMAIN dataset[r + 1].Text :
                             dataset[r + 1].Text[k] # Marker)

\* The rows the analysed records are of, in order.
AnalysedRows ==
    [ i \in 1 .. Len(analysed_tweets) |-> analysed_tweets[i].tweet.timestamp_ms ]

\* C4: with a non-negative limit analyze_tweets considers exactly the rows
\* at 0-based positions below the limit (none for limit 0, whose analysed
\* corpus is empty), and with no limit every row.
C4_LimitTruncatesRows ==
    Analysed_done =>
        /\ Range(considered) =
               { r \in 0 .. Len(dataset) - 1 : limit = None \/ r < limit[1] }
        /\ limit = Some(0) => analysed_tweets = <<>>

\* C4 for the limits the code does honour: no limit, or a positive one.
C4_PositiveLimitTruncatesRows ==
    Analysed_done /\ limit # Some(0) =>
        Range(considered) =
            { r \in 0 .. Len(dataset) - 1 : limit = None \/ r < limit[1] }

\* C5 as stated: with a limit L the analysed corpus is the first L eligible
\* rows of the input, in order (all of them when fewer than L are eligible),
\* however many ineligible rows lie before them. Stated for the positive
\* limits, so that its failure is not that of the limit 0 (C4).
C5_LimitCountsEligibleRows ==
    Analysed_done /\ limit # None /\ limit # Some(0) =>
        AnalysedRows = SubSeq(EligibleRows, 1, Min(limit[1], Len(EligibleRows)))

\* C5 as amended: the limit L is applied to the rows of the input, before the
\* marker filter: the analysed corpus is the eligible rows among the rows the
\* limit check lets through (those at positions below L; every row for
\* L = 0, which the check treats as no limit), in order, so that ineligible
\* rows below position L use up the limit.
C5_LimitCountsAllRows ==
    Analysed_done /\ limit # None =>
        AnalysedRows =
            SelectSeq(EligibleRows, LAMBDA r : limit = Some(0) \/ r < limit[1])

\* A positive limit L, an ineligible row below position L and an eligible row
\* at or behind it that is among the first L eligible ones and was not
\* analysed.
C5_Witness ==
    /\ Analysed_done
    /\ limit # None /\ limit # Some(0)
    /\ \E r \in 0 .. Len(dataset) - 1 :
          r < limit[1] /\ Marker \in Range(dataset[r + 1].Text)
    /\ Len(EligibleRows) >= 1
    /\ EligibleRows[1] >= limit[1]
    /\ analysed_tweets = <<>>

\* print_overall_metrics raised ZeroDivisionError.
MetricsFailed == failure = "ZeroDivisionError"

\* print_overall_metrics returned.
MetricsReturned ==
    pc \in { "show_polarity_histogram", "done" } \/ failure = "AssertionError"

\* The printed lines of a label.
Printed(label) == SelectSeq(output, LAMBDA l : l.label = label)

\* C6: print_overall_metrics, called with the partitions of classify_tweets,
\* fails with a division by zero exactly when a denominator is zero: when the
\* analysed corpus is empty, and for a non-empty corpus if and only if the
\* two summed scores are both zero, which is exactly when the positive and
\* the negative partition are both empty. It never prints a quotient whose
\* denominator is zero, and whenever it does not fail both ratios and both
\* percentages are printed.
C6_DivisionByZero ==
    LET total == Len(analysed_tweets)
        pos_sum == sum_scores(positive_tweets, "pos")
        neg_sum == sum_scores(negative_tweets, "neg")
    IN  (MetricsFailed \/ MetricsReturned) =>
          /\ MetricsFailed <=> (total = 0 \/ pos_sum + neg_sum = 0)
          /\ total = 0 => MetricsFailed /\ Printed("Positive tweets ratio") = <<>>
          /\ total # 0 =>
               /\ MetricsFailed <=> (pos_sum = 0 /\ neg_sum = 0)
               /\ (pos_sum = 0 /\ neg_sum = 0)
                      <=> (positive_tweets = <<>> /\ negative_tweets = <<>>)
          /\ MetricsFailed =>
               /\ Printed("Positive sentiment score percentage") = <<>>
               /\ Printed("Negative sentiment score percentage") = <<>>
          /\ MetricsReturned =>
               /\ Printed("Positive tweets ratio") =
                      << Line("Positive tweets ratio",
                              << 100 * Len(positive_tweets), total >>) >>
               /\ Printed("Negative tweets ratio") =
                      << Line("Negative tweets ratio",
                              << 100 * Len(negative_tweets), total >>) >>
               /\ Printed("Positive sentiment score percentage") =
                      << Line("Positive sentiment score percentage",
                              << 100 * pos_sum, pos_sum + neg_sum >>) >>
               /\ Printed("Negative sentiment score percentage") =
                      << Line("Negative sentiment score percentage",
                              << 100 * neg_sum, pos_sum + neg_sum >>) >>
          /\ \A k \in DOMAIN output :
               output[k].label \in { "Positive tweets ratio",
                                     "Negative tweets ratio",
                                     "Positive sentiment score percentage",
                                     "Negative sentiment score percentage" }
                   => output[k].args[2] # 0

\* A non-empty corpus of tweets none of which is positive or negative: the
\* ratios were printed, the percentage split failed.
C6_Witness ==
    /\ MetricsFailed
    /\ analysed_tweets # <<>>
    /\ positive_tweets = <<>> /\ negative_tweets = <<>>
    /\ Len(Printed("Positive tweets ratio")) = 1

ReportLabels ==
    { "N score", "Positive score", "Neutral score",
      "Positive tweets ratio", "Negative tweets ratio",
      "Positive sentiment score", "Negative sentiment score" }

TopHeaders ==
    << Line("Top 10 negative tweets:", <<>>),
       Line("Top 10 positive tweets:", <<>>),
       Line("Top 10 neutral tweets:", <<>>) >>

\* The last n lines printed.
LastPrinted(n) == SubSeq(output, Len(output) - n + 1, Len(output))

\* C7 as stated: a run of main that terminates with a failure has emitted no
\* report output (no top-10 line, no ratio line, no score line).
C7_FailedRunPrintsNothing ==
    pc = "failed" => \A k \in DOMAIN output : output[k].label \notin ReportLabels

\* C7 as amended: a failed run has emitted the report up to the failure. A
\* run that fails with a division by zero on an empty analysed corpus has
\* emitted only the three top-10 headers; one that fails in the percentage
\* split has emitted the top-10 lines, both ratio lines and both score lines
\* last, and no percentage or count line; one that fails an assertion of
\* show_polarity_histogram has emitted the whole report.
C7_FailedRunPrintsPrefix ==
    pc = "failed" =>
        /\ failure \in { "ZeroDivisionError", "AssertionError" }
        /\ failure = "ZeroDivisionError" /\ analysed_tweets = <<>> =>
               output = TopHeaders
        /\ failure = "ZeroDivisionError" /\ analysed_tweets # <<>> =>
               /\ Len(output) >= 4
               /\ LastPrinted(1)[1].label = "Negative sentiment score"
               /\ LastPrinted(2)[1].label = "Positive sentiment score"
               /\ LastPrinted(3)[1].label = "Negative tweets ratio"
               /\ LastPrinted(4)[1].label = "Positive tweets ratio"
               /\ Len(Printed("Neutral score")) = Len(top10.neu)
               /\ Printed("Positive sentiment score percentage") = <<>>
               /\ Printed("Negative sentiment score percentage") = <<>>
               /\ Printed("Analysed tweets") = <<>>
        /\ failure = "AssertionError" =>
               /\ Len(Printed("Positive tweets ratio")) = 1
               /\ Len(Printed("Positive sentiment score percentage")) = 1
               /\ Len(Printed("Negative sentiment score percentage")) = 1
               /\ LastPrinted(1)[1].label = "Negative tweets"

\* A run that failed in the percentage split after printing top-10 lines of
\* neutral tweets, the ratios and the scores.
C7_Witness ==
    /\ pc = "failed"
    /\ failure = "ZeroDivisionError"
    /\ Len(Printed("Neutral score")) >= 1
    /\ Len(Printed("Positive tweets ratio")) = 1
    /\ Len(Printed("Negative sentiment score")) = 1

\* main is past its three printing loops.
TopPrinted ==
    pc \in { "print_overall_metrics", "show_polarity_histogram", "done", "failed" }

\* The position of a record in a partition (its records are pairwise
\* different).
PlaceIn(part, t) == CHOOSE k \in DOMAIN part : part[k] = t

\* top is a top-10 selection of part under the score key.
IsTop10(top, part, key) ==
    /\ Len(top) = Min(TopCount, Len(part))
    /\ \A i \in DOMAIN top : In(top[i], part)
    /\ \A i, j \in DOMAIN top : i # j => top[i] # top[j]
    /\ \A i, j \in DOMAIN top :
         i < j =>
           /\ top[i].polarity_scores[key] <= top[j].polarity_scores[key]
           /\ top[i].polarity_scores[key] = top[j].polarity_scores[key] =>
                  PlaceIn(part, top[i]) < PlaceIn(part, top[j])
    /\ \A k \in DOMAIN part : \A i \in DOMAIN top :
         ~In(part[k], top) =>
             part[k].polarity_scores[key] <= top[i].polarity_scores[key]

\* C8: for each partition the top-10 selection of main holds
\* min(10, |partition|) records, the highest-scoring ones of the partition
\* under its own score, ascending by that score (highest last), records of
\* equal score in their input order; a partition of fewer than 10 records is
\* selected whole. The lines are printed in that order.
C8_Top10 ==
    TopPrinted =>
        /\ IsTop10(top10.neg, negative_tweets, "neg")
        /\ IsTop10(top10.pos, positive_tweets, "pos")
        /\ IsTop10(top10.neu, neutral_tweets, "neu")
        /\ Printed("N score") =
               [ i \in 1 .. Len(top10.neg) |->
                   Line("N score", << top10.neg[i].polarity_scores.neg,
                                      top10.neg[i].tweet.text >>) ]
        /\ Printed("Positive score") =
               [ i \in 1 .. Len(top10.pos) |->
                   Line("Positive score", << top10.pos[i].polarity_scores.pos,
                                             top10.pos[i].tweet.text >>) ]
        /\ Printed("Neutral score") =
               [ i \in 1 .. Len(top10.neu) |->
                   Line("Neutral score", << top10.neu[i].polarity_scores.neu,
                                            top10.neu[i].tweet.text >>) ]

\* A negative partition of more than ten records whose first record scores
\* highest and whose last scores lowest: the selection drops a record, moves
\* records and holds records of equal score.
C8_Witness ==
    /\ TopPrinted
    /\ Len(negative_tweets) > TopCount
    /\ Len(top10.neg) = TopCount
    /\ negative_tweets[1].polarity_scores.neg = 2
    /\ negative_tweets[Len(negative_tweets)].polarity_scores.neg = 1
    /\ top10.neg[TopCount] = negative_tweets[1]
    /\ top10.neg[1].polarity_scores.neg = top10.neg[2].polarity_scores.neg

\* C10: the scorer is called exactly once for each eligible row considered
\* and never for a row whose text holds the marker; analysed_tweets holds
\* exactly the eligible rows considered, in input order, each with the score
\* of its own call, so that ineligible rows do not count toward
\* len(analysed_tweets), the denominator of the ratios.
C10_ScoredOncePerEligibleRow ==
    /\ \A c \in DOMAIN scorer_calls :
         /\ Marker \notin Range(scorer_calls[c].text)
         /\ scorer_calls[c].text = dataset[scorer_calls[c].row + 1].Text
    /\ \A c, d \in DOMAIN scorer_calls :
         c < d => scorer_calls[c].row < scorer_calls[d].row
    /\ { scorer_calls[c].row : c \in DOMAIN scorer_calls }
           = { r \in Range(considered) : Marker \notin Range(dataset[r + 1].Text) }
    /\ analysed_tweets =
           [ c \in 1 .. Len(scorer_calls) |->
               [tweet |-> [text |-> dataset[scorer_calls[c].row + 1].Text,
                           timestamp_ms |->
                               dataset[scorer_calls[c].row + 1].Timestamp],
                polarity_scores |-> scorer_calls[c].result] ]
    /\ \A k \in DOMAIN output :
         output[k].label \in { "Positive tweets ratio", "Negative tweets ratio" }
             => output[k].args[2] =
                    Cardinality({ r \in Range(considered) :
                                    Marker \notin Range(dataset[r + 1].Text) })

\* A finished run over a dataset with a row that was skipped between two
\* rows that were scored.
C10_Witness ==
    /\ pc = "done"
    /\ considered = << 0, 1, 2 >>
    /\ Len(scorer_calls) = 2
    /\ scorer_calls[1].row = 0 /\ scorer_calls[2].row = 2
    /\ scorer_calls[1].result # scorer_calls[2].result

====
